---- MODULE Spec2Model ----
(***************************************************************************)
(* Model of Grabber.py: a FastAPI service with two endpoints, /capture and *)
(* /capture_map, which drive one shared browser through a fixed pipeline   *)
(* (_capture_one_raw) under one asyncio.Semaphore(1) (queue_lock).         *)
(*                                                                         *)
(* Strings are sequences of one-character strings.  Every await of the     *)
(* source is a point where another handler may run and where the awaited   *)
(* call may raise; the code between two awaits runs in one step.           *)
(***************************************************************************)
EXTENDS Integers, Sequences, FiniteSets, TLC

\* ------------------------------------------------------------------ bounds
NumReq == 2

\* the longest name given to _sanitize_filename on its own
MaxNameLen == 3

\* the requests sent when the queue on the permit is followed
NumQueued == 3

Requests == 1..NumReq

\* The strings requests are made of: the identifiers "a", "a/" and " b",
\* one search term, and a third element for an over-long /capture body.
IdA == <<"a">>
IdASlash == <<"a", "/">>
IdSpaceB == <<" ", "b">>
TargetX == <<"x">>
Extra == <<"z">>

\* --------------------------------------------------------------- constants
OUTPUT_DIR == "C:\\Users\\admin\\Downloads"

\* The characters of r'\/:*?"<>|' (line 30).
ForbiddenChars == { "\\", "/", ":", "*", "?", "\"", "<", ">", "|" }
Whitespace == { " " }

\* variant: a semaphore of two permits
TwoPermits == 1 + 1
\* asyncio.Semaphore(1)
QueueLockPermits == 1

\* ------------------------------------------------------- _sanitize_filename
RECURSIVE lstrip(_)
lstrip(s) ==
  IF s # <<>> /\ Head(s) \in Whitespace THEN lstrip(Tail(s)) ELSE s

RECURSIVE rstrip(_)
rstrip(s) ==
  IF s # <<>> /\ s[Len(s)] \in Whitespace
    THEN rstrip(SubSeq(s, 1, Len(s) - 1))
    ELSE s

strip(s) == rstrip(lstrip(s))

NotForbidden(c) == c \notin ForbiddenChars

\* variant: the joined characters are returned as they are
_sanitize_filename_noStrip(name) == SelectSeq(name, NotForbidden)
\* "".join(c for c in str(name) if c not in r'\/:*?"<>|').strip()
_sanitize_filename(name) == strip(SelectSeq(name, NotForbidden))

\* out_path = out_dir / f"{code}.png", for the sanitized code
FileName(code) == _sanitize_filename(code) \o <<".png">>

\* variant: the screenshot goes to the unsanitized name
UnsanitizedTarget(code) == code \o <<".png">>
\* the file region.screenshot(path=str(out_path)) writes
ScreenshotTarget(code) == FileName(code)

\* str(out_path.resolve())
ResolvedPath(code) == <<OUTPUT_DIR>> \o FileName(code)

\* ----------------------------------------------------------- request bodies
\* /capture bodies: something that is no list, and lists of 0 to 3 strings.
CaptureBodies ==
  { [kind |-> "other", item |-> <<>>],
    [kind |-> "list", item |-> <<>>],
    [kind |-> "list", item |-> <<IdA>>],
    [kind |-> "list", item |-> <<IdA, TargetX>>],
    [kind |-> "list", item |-> <<IdASlash, TargetX>>],
    [kind |-> "list", item |-> <<IdSpaceB, TargetX, Extra>>] }

\* /capture_map bodies: something that is no mapping, and mappings given as
\* the sequence of their (code, target) entries in iteration order: the
\* empty one, {"a": "x"}, {"a": "x", "a/": "x"} and {" b": "x", "a": "x"}.
MapBodies ==
  { [kind |-> "other", item |-> <<>>],
    [kind |-> "dict", item |-> <<>>],
    [kind |-> "dict", item |-> << <<IdA, TargetX>> >>],
    [kind |-> "dict", item |-> << <<IdA, TargetX>>, <<IdASlash, TargetX>> >>],
    [kind |-> "dict", item |-> << <<IdSpaceB, TargetX>>, <<IdA, TargetX>> >>] }

NoBody == [kind |-> "none", item |-> <<>>]

\* ---------------------------------------------------------------- validation
\* not (not isinstance(item, list) or len(item) < 2)
CaptureBodyValid(b) == b.kind = "list" /\ ~(Len(b.item) < 2)

\* variant: the empty mapping is let through
MapBodyValid_noEmptyCheck(b) == b.kind = "dict"
\* not (not isinstance(items, dict) or not items)
MapBodyValid(b) == b.kind = "dict" /\ b.item # <<>>

\* ------------------------------------------------------------------- state
VARIABLES
  pc,           \* where each request's handler stands
  endpoint,     \* "none", "capture" or "capture_map"
  body,         \* the request body
  idx,          \* the item the handler is at (1 for /capture)
  done,         \* capture_map's done list
  result,       \* the value _capture_one_raw is about to return
  resp,         \* the response sent
  permit,       \* queue_lock's counter
  waiters,      \* queue_lock's waiters, in arrival order
  contexts,     \* the Browsing Contexts alive in the browser, <<request, item>>
  files,        \* the output directory: <<file name, the capture that wrote it>>
  holders,      \* history: the requests that acquired queue_lock and have not released it
  everHeld,     \* history: the requests that ever acquired queue_lock
  rejectedWhileHeld, \* history: the request was refused while queue_lock was held
  steps,        \* history: the awaits the running invocation has come through, <<step, ok>>
  wrote,        \* history: the files the running invocation wrote
  hist,         \* history: the invocations of each request that have ended
  waited,       \* history: the handlers suspended on queue_lock or just resumed from it
  server,       \* where the service process stands in lifespan
  driver,       \* app.state.playwright: "none", "running", "stopped"
  browser,      \* app.state.browser: "none", "running", "closed"
  sanIn,        \* a name given to _sanitize_filename
  sanOut        \* the file name made of it, once it is made

vars == << pc, endpoint, body, idx, done, result, resp, permit, waiters,
           contexts, files, holders, everHeld, rejectedWhileHeld, steps, wrote, hist,
           waited, server, driver, browser, sanIn, sanOut >>

\* what the request handlers leave alone
others == << server, driver, browser, sanIn, sanOut >>

requestVars == << pc, endpoint, body, idx, done, result, resp, permit, waiters,
                  contexts, files, holders, everHeld, rejectedWhileHeld, steps,
                  wrote, hist, waited >>

lifeVars == << server, driver, browser >>

NoResult == [ok |-> FALSE, ret |-> <<>>]
NoResp == [status |-> 0, content |-> [none |-> TRUE]]

PipelinePcs ==
  { "new_context", "new_page", "goto", "fill", "submit", "click", "shot", "close" }

\* No request has arrived at any of the handlers R; nothing was captured.
InitRequests(R) ==
  /\ pc = [r \in R |-> "idle"]
  /\ endpoint = [r \in R |-> "none"]
  /\ body = [r \in R |-> NoBody]
  /\ idx = [r \in R |-> 0]
  /\ done = [r \in R |-> <<>>]
  /\ result = [r \in R |-> NoResult]
  /\ resp = [r \in R |-> NoResp]
  /\ waiters = <<>>
  /\ contexts = {}
  /\ files = {}
  /\ holders = {}
  /\ everHeld = {}
  /\ rejectedWhileHeld = [r \in R |-> FALSE]
  /\ steps = [r \in R |-> <<>>]
  /\ wrote = [r \in R |-> {}]
  /\ hist = [r \in R |-> <<>>]
  /\ waited = {}

\* lifespan has come to its yield (line 44): the driver and the browser run,
\* queue_lock is a fresh Semaphore(1)
Serving ==
  /\ server = "serving"
  /\ driver = "running"
  /\ browser = "running"
  /\ permit = QueueLockPermits

NoName == <<>>

SanIdle == sanIn = NoName /\ sanOut = NoName

\* The service after its startup.
Init == InitRequests(Requests) /\ Serving /\ SanIdle

\* The (code, target) of the item request r is at.
ItemOf(r) ==
  IF endpoint[r] = "capture"
    THEN <<body[r].item[1], body[r].item[2]>>
    ELSE body[r].item[idx[r]]

CodeOf(r) == ItemOf(r)[1]
TargetOf(r) == ItemOf(r)[2]

NumItems(r) == IF endpoint[r] = "capture" THEN 1 ELSE Len(body[r].item)

\* ----------------------------------------------------------------- responses
NOT_FOUND == "image not found"
ExcTexts == { "Timeout", "TargetClosed" }

BadRequest == [status |-> 400, content |-> [error |-> "bad request body"]]
\* what the framework answers when the handler raises
ServerError == [status |-> 500, content |-> [error |-> "Internal Server Error"]]

\* lines 124-127
CaptureResponse(ok, code, target, ret) ==
  IF ok
    THEN [status |-> 200, content |-> [code |-> code, target |-> target, path |-> ret]]
    ELSE [status |-> 200,
          content |-> [code |-> code, target |-> target, error |-> NOT_FOUND]]

\* line 151
MapResponse(d) ==
  [status |-> 200, content |-> [output_dir |-> OUTPUT_DIR, done |-> d]]

\* variant: the code is appended whatever the outcome
DoneAfter_always(d, ok, code) == Append(d, code)
\* if ok: done.append(str(code))
DoneAfter(d, ok, code) == IF ok THEN Append(d, code) ELSE d

\* ----------------------------------------------------------------- queue_lock
\* variant: the semaphore never reports itself locked
SemLocked_never == FALSE
\* Semaphore.locked(): no permit left, or somebody already waits
SemLocked == permit = 0 \/ waiters # <<>>

\* variant: the waiter that came last is woken
Woken_last == IF waiters # <<>> THEN { waiters[Len(waiters)] } ELSE {}
\* Semaphore.release(): the waiter that came first is woken
Woken == IF waiters # <<>> THEN { Head(waiters) } ELSE {}

\* Semaphore.release() by r, whose handler then ends: the permit goes to the
\* first waiter, which resumes at the start of its invocation, or back to
\* the counter.
ReleaseLock(r) ==
  /\ holders' = (holders \ {r}) \cup Woken
  /\ waited' = waited \ {r}
  /\ everHeld' = everHeld \cup Woken
  /\ waiters' = IF waiters # <<>> THEN Tail(waiters) ELSE waiters
  /\ permit' = IF waiters # <<>> THEN permit ELSE permit + 1
  /\ pc' = [q \in DOMAIN pc |->
              IF q = r THEN "done" ELSE IF q \in Woken THEN "start" ELSE pc[q]]

\* variant: the handler ends without releasing
KeepLock(r) ==
  /\ pc' = [pc EXCEPT ![r] = "done"]
  /\ waited' = waited \ {r}
  /\ UNCHANGED << holders, everHeld, waiters, permit >>

\* __aexit__ of "async with queue_lock" when the body raised
ReleaseOnRaise(r) == ReleaseLock(r)

\* ------------------------------------------------------------ handler entry
Valid(ep, b) == IF ep = "capture" THEN CaptureBodyValid(b) ELSE MapBodyValid(b)

\* Request r arrives at endpoint ep with body b, while the server accepts
\* requests.  Requests are numbered in the order they arrive.
Arrives(r, ep, b) ==
  /\ server = "serving"
  /\ pc[r] = "idle"
  /\ \A q \in DOMAIN pc : q < r => pc[q] # "idle"
  /\ endpoint' = [endpoint EXCEPT ![r] = ep]
  /\ body' = [body EXCEPT ![r] = b]

\* return JSONResponse(status_code=400, ...)
Reject(r, ep, b) ==
  /\ Arrives(r, ep, b)
  /\ ~Valid(ep, b)
  /\ resp' = [resp EXCEPT ![r] = BadRequest]
  /\ pc' = [pc EXCEPT ![r] = "done"]
  /\ rejectedWhileHeld' = [rejectedWhileHeld EXCEPT ![r] = (holders # {})]
  /\ UNCHANGED << others, waited, idx, done, result, permit, waiters, contexts, files,
                  holders, everHeld, steps, wrote, hist >>

\* async with queue_lock: the semaphore is free
AcquireFree(r, ep, b) ==
  /\ Arrives(r, ep, b)
  /\ Valid(ep, b)
  /\ ~SemLocked
  /\ permit' = permit - 1
  /\ holders' = holders \cup {r}
  /\ everHeld' = everHeld \cup {r}
  /\ idx' = [idx EXCEPT ![r] = 1]
  /\ pc' = [pc EXCEPT ![r] = "start"]
  /\ UNCHANGED << others, waited, done, result, resp, waiters, contexts, files, rejectedWhileHeld,
                  steps, wrote, hist >>

\* async with queue_lock: the semaphore is locked, the handler is suspended
AcquireWait(r, ep, b) ==
  /\ Arrives(r, ep, b)
  /\ Valid(ep, b)
  /\ SemLocked
  /\ waiters' = Append(waiters, r)
  /\ waited' = waited \cup {r}
  /\ idx' = [idx EXCEPT ![r] = 1]
  /\ pc' = [pc EXCEPT ![r] = "waiting"]
  /\ UNCHANGED << others, done, result, resp, permit, contexts, files, holders,
                  everHeld, rejectedWhileHeld, steps, wrote, hist >>

\* ----------------------------------------------------- how an invocation ends
AllOk(st) == \A i \in 1..Len(st) : st[i][2]

Ended(r, outcome, ok) ==
  [code |-> CodeOf(r), outcome |-> outcome,
   allOk |-> ok /\ AllOk(steps[r]), wrote |-> wrote[r]]

\* An exception leaves _capture_one_raw: it leaves the handler too, through
\* __aexit__, and the framework answers 500.
Escapes(r) ==
  /\ hist' = [hist EXCEPT ![r] = Append(@, Ended(r, "Raised", FALSE))]
  /\ steps' = [steps EXCEPT ![r] = <<>>]
  /\ wrote' = [wrote EXCEPT ![r] = {}]
  /\ ReleaseOnRaise(r)
  /\ resp' = [resp EXCEPT ![r] = ServerError]
  /\ result' = [result EXCEPT ![r] = NoResult]
  /\ UNCHANGED << others, endpoint, body, idx, done, rejectedWhileHeld >>

\* _capture_one_raw returns (ok, ret) to its handler, which runs on to its
\* next await or to its return.
Returns(r) ==
  LET ok == result[r].ok
      out == IF ok THEN "Success" ELSE "Failure"
      d == DoneAfter(done[r], ok, CodeOf(r))
  IN /\ hist' = [hist EXCEPT ![r] = Append(@, Ended(r, out, TRUE))]
     /\ steps' = [steps EXCEPT ![r] = <<>>]
     /\ wrote' = [wrote EXCEPT ![r] = {}]
     /\ result' = [result EXCEPT ![r] = NoResult]
     /\ UNCHANGED << others, endpoint, body, rejectedWhileHeld >>
     /\ IF endpoint[r] = "capture"
          THEN /\ ReleaseLock(r)
               /\ resp' = [resp EXCEPT ![r] =
                             CaptureResponse(ok, CodeOf(r), TargetOf(r), result[r].ret)]
               /\ UNCHANGED << idx, done >>
          ELSE /\ done' = [done EXCEPT ![r] = d]
               /\ IF idx[r] < NumItems(r)
                    THEN /\ idx' = [idx EXCEPT ![r] = @ + 1]
                         /\ pc' = [pc EXCEPT ![r] = "start"]
                         /\ UNCHANGED << resp, permit, waiters, holders, everHeld, waited >>
                    ELSE /\ ReleaseLock(r)
                         /\ resp' = [resp EXCEPT ![r] = MapResponse(d)]
                         /\ UNCHANGED idx

Did(r, step, ok) == steps' = [steps EXCEPT ![r] = Append(@, <<step, ok>>)]

\* ------------------------------------------------------------ _capture_one_raw
\* lines 57-63: sanitize, mkdir, call browser.new_context
StartOk(r) ==
  /\ pc[r] = "start"
  /\ pc' = [pc EXCEPT ![r] = "new_context"]
  /\ waited' = waited \ {r}
  /\ UNCHANGED << others, endpoint, body, idx, done, result, resp, permit, waiters,
                  contexts, files, holders, everHeld, rejectedWhileHeld, steps,
                  wrote, hist >>

\* line 59: out_dir.mkdir raises
MkdirRaises(r) ==
  /\ pc[r] = "start"
  /\ Escapes(r)
  /\ UNCHANGED << contexts, files >>

\* line 63
NewContextOk(r) ==
  /\ pc[r] = "new_context"
  /\ contexts' = contexts \cup { <<r, idx[r]>> }
  /\ Did(r, "new_context", TRUE)
  /\ pc' = [pc EXCEPT ![r] = "new_page"]
  /\ UNCHANGED << others, waited, endpoint, body, idx, done, result, resp, permit, waiters,
                  files, holders, everHeld, rejectedWhileHeld, wrote, hist >>

NewContextRaises(r) ==
  /\ pc[r] = "new_context"
  /\ Escapes(r)
  /\ UNCHANGED << contexts, files >>

\* line 68
NewPageOk(r) ==
  /\ pc[r] = "new_page"
  /\ Did(r, "new_page", TRUE)
  /\ pc' = [pc EXCEPT ![r] = "goto"]
  /\ UNCHANGED << others, waited, endpoint, body, idx, done, result, resp, permit, waiters,
                  contexts, files, holders, everHeld, rejectedWhileHeld, wrote, hist >>

\* line 68 raises before the try block is entered: nothing closes the context
NewPageRaises(r) ==
  /\ pc[r] = "new_page"
  /\ Escapes(r)
  /\ UNCHANGED << contexts, files >>

\* variant: the search box is never filled
NextStep_skipFill(s) ==
  CASE s = "goto" -> "submit"
    [] s = "fill" -> "submit"
    [] s = "submit" -> "click"
    [] s = "click" -> "shot"
\* lines 72-91: the steps of the try block before the screenshot
NextStep(s) ==
  CASE s = "goto" -> "fill"
    [] s = "fill" -> "submit"
    [] s = "submit" -> "click"
    [] s = "click" -> "shot"

TryStepOk(r) ==
  /\ pc[r] \in { "goto", "fill", "submit", "click" }
  /\ Did(r, pc[r], TRUE)
  /\ pc' = [pc EXCEPT ![r] = NextStep(pc[r])]
  /\ UNCHANGED << others, waited, endpoint, body, idx, done, result, resp, permit, waiters,
                  contexts, files, holders, everHeld, rejectedWhileHeld, wrote, hist >>

\* lines 102-105: except Exception as e: return False, f"...{e}"; the finally
\* block then awaits context.close()
TryStepRaises(r, e) ==
  /\ pc[r] \in { "goto", "fill", "submit", "click", "shot" }
  /\ Did(r, pc[r], FALSE)
  /\ result' = [result EXCEPT ![r] = [ok |-> FALSE, ret |-> <<NOT_FOUND, e>>]]
  /\ pc' = [pc EXCEPT ![r] = "close"]
  /\ UNCHANGED << others, waited, endpoint, body, idx, done, resp, permit, waiters, contexts,
                  files, holders, everHeld, rejectedWhileHeld, wrote, hist >>

\* a variant of WriteFile that keeps what was at the path beside the new file
WriteFile_accumulate(fs, name, shot) == fs \cup { <<name, shot>> }

\* line 98, page.screenshot(path=str(out_path)): the file at the path is
\* created or overwritten with the screenshot
WriteFile(fs, name, shot) == { f \in fs : f[1] # name } \cup { <<name, shot>> }

\* lines 94-100: the screenshot is written, return True, str(out_path.resolve())
ShotOk(r) ==
  LET name == ScreenshotTarget(CodeOf(r))
  IN /\ pc[r] = "shot"
     /\ Did(r, "shot", TRUE)
     /\ files' = WriteFile(files, name, <<r, idx[r]>>)
     /\ wrote' = [wrote EXCEPT ![r] = @ \cup { name }]
     /\ result' = [result EXCEPT ![r] = [ok |-> TRUE, ret |-> ResolvedPath(CodeOf(r))]]
     /\ pc' = [pc EXCEPT ![r] = "close"]
     /\ UNCHANGED << others, waited, endpoint, body, idx, done, resp, permit, waiters, contexts,
                     holders, everHeld, rejectedWhileHeld, hist >>

\* line 105
CloseOk(r) ==
  /\ pc[r] = "close"
  /\ contexts' = contexts \ { <<r, idx[r]>> }
  /\ Returns(r)
  /\ UNCHANGED files

\* line 105 raises: the exception replaces the pending return value; the
\* context is gone or not
CloseRaises(r, destroyed) ==
  /\ pc[r] = "close"
  /\ contexts' = IF destroyed THEN contexts \ { <<r, idx[r]>> } ELSE contexts
  /\ Escapes(r)
  /\ UNCHANGED files

\* ---------------------------------------------------------------------- Next
\* The handlers R at work, with bodies from CB and MB.
Serve(R, CB, MB) ==
  \/ \E r \in R, b \in CB : Reject(r, "capture", b)
  \/ \E r \in R, b \in MB : Reject(r, "capture_map", b)
  \/ \E r \in R, b \in CB : AcquireFree(r, "capture", b)
  \/ \E r \in R, b \in MB : AcquireFree(r, "capture_map", b)
  \/ \E r \in R, b \in CB : AcquireWait(r, "capture", b)
  \/ \E r \in R, b \in MB : AcquireWait(r, "capture_map", b)
  \/ \E r \in R : StartOk(r)
  \/ \E r \in R : MkdirRaises(r)
  \/ \E r \in R : NewContextOk(r)
  \/ \E r \in R : NewContextRaises(r)
  \/ \E r \in R : NewPageOk(r)
  \/ \E r \in R : NewPageRaises(r)
  \/ \E r \in R : TryStepOk(r)
  \/ \E r \in R, e \in ExcTexts : TryStepRaises(r, e)
  \/ \E r \in R : ShotOk(r)
  \/ \E r \in R : CloseOk(r)
  \/ \E r \in R, d \in BOOLEAN : CloseRaises(r, d)

Next == Serve(Requests, CaptureBodies, MapBodies)

Spec == Init /\ [][Next]_vars

\* --------------------------------------------------- the queue on the permit
QueueRequests == 1..NumQueued

QueueCaptureBodies ==
  { [kind |-> "list", item |-> <<IdA>>],
    [kind |-> "list", item |-> <<IdA, TargetX>>] }

QueueMapBodies ==
  { [kind |-> "dict", item |-> <<>>],
    [kind |-> "dict", item |-> << <<IdA, TargetX>> >>] }

InitQueue == InitRequests(QueueRequests) /\ Serving /\ SanIdle

NextQueue == Serve(QueueRequests, QueueCaptureBodies, QueueMapBodies)

\* the handler of r, holding the permit, takes its next step: the call it
\* awaits returns or raises
Progress(r) ==
  \/ StartOk(r)
  \/ MkdirRaises(r)
  \/ NewContextOk(r)
  \/ NewContextRaises(r)
  \/ NewPageOk(r)
  \/ NewPageRaises(r)
  \/ TryStepOk(r)
  \/ \E e \in ExcTexts : TryStepRaises(r, e)
  \/ ShotOk(r)
  \/ CloseOk(r)
  \/ \E d \in BOOLEAN : CloseRaises(r, d)

\* every awaited call of a capture ends, and the event loop resumes the
\* handler that awaited it
CapturesTerminate == \A r \in QueueRequests : WF_vars(Progress(r))

SpecQueue == InitQueue /\ [][NextQueue]_vars /\ CapturesTerminate

\* ------------------------------------------------------------------ lifespan
\* The bodies sent while the service is followed from its start to its exit.
LifeCaptureBodies ==
  { [kind |-> "list", item |-> <<IdA>>],
    [kind |-> "list", item |-> <<IdA, TargetX>>] }

LifeMapBodies ==
  { [kind |-> "dict", item |-> <<>>],
    [kind |-> "dict", item |-> << <<IdA, TargetX>>, <<IdASlash, TargetX>> >>] }

\* uvicorn.run(app) at line 157 has not entered lifespan yet
InitLife ==
  /\ InitRequests(Requests)
  /\ SanIdle
  /\ server = "boot"
  /\ driver = "none"
  /\ browser = "none"
  /\ permit = 0

Handlers == << pc, endpoint, body, idx, done, result, resp, waiters, files,
               holders, everHeld, rejectedWhileHeld, steps, wrote, hist, waited >>

\* line 35: async_playwright().start() returns
StartDriverOk ==
  /\ server = "boot"
  /\ driver' = "running"
  /\ server' = "launch"
  /\ UNCHANGED << Handlers, permit, contexts, browser, sanIn, sanOut >>

\* line 35 raises: startup fails and the process exits
StartDriverRaises ==
  /\ server = "boot"
  /\ server' = "exited"
  /\ UNCHANGED << Handlers, permit, contexts, driver, browser, sanIn, sanOut >>

\* lines 36-44: chromium.launch returns, queue_lock is made, lifespan yields
LaunchOk ==
  /\ server = "launch"
  /\ browser' = "running"
  /\ permit' = QueueLockPermits
  /\ server' = "serving"
  /\ UNCHANGED << Handlers, contexts, driver, sanIn, sanOut >>

\* line 36 raises, before the try of line 43 is entered: startup fails and
\* the process exits
LaunchRaises ==
  /\ server = "launch"
  /\ server' = "exited"
  /\ UNCHANGED << Handlers, permit, contexts, driver, browser, sanIn, sanOut >>

\* The server is told to terminate: it stops accepting requests and lets the
\* handlers in flight run to their responses.
Signal ==
  /\ server = "serving"
  /\ server' = "draining"
  /\ UNCHANGED << Handlers, permit, contexts, driver, browser, sanIn, sanOut >>

\* No handler is in flight any more: lifespan is resumed after its yield and
\* enters the finally block of line 45.
BeginShutdown ==
  /\ server = "draining"
  /\ \A r \in DOMAIN pc : pc[r] \in { "idle", "done" }
  /\ server' = "closing"
  /\ UNCHANGED << Handlers, permit, contexts, driver, browser, sanIn, sanOut >>

\* line 46: browser.close() returns; the contexts of the browser go with it
BrowserCloseOk ==
  /\ server = "closing"
  /\ browser' = "closed"
  /\ contexts' = {}
  /\ server' = "stopping"
  /\ UNCHANGED << Handlers, permit, driver, sanIn, sanOut >>

\* line 46 raises: the exception leaves lifespan, line 47 is not reached;
\* the browser is gone or not
BrowserCloseRaises(closed) ==
  /\ server = "closing"
  /\ browser' = IF closed THEN "closed" ELSE browser
  /\ contexts' = IF closed THEN {} ELSE contexts
  /\ server' = "exited"
  /\ UNCHANGED << Handlers, permit, driver, sanIn, sanOut >>

\* line 47: playwright.stop() returns
DriverStopOk ==
  /\ server = "stopping"
  /\ driver' = "stopped"
  /\ server' = "exited"
  /\ UNCHANGED << Handlers, permit, contexts, browser, sanIn, sanOut >>

\* line 47 raises; the driver is gone or not
DriverStopRaises(stopped) ==
  /\ server = "stopping"
  /\ driver' = IF stopped THEN "stopped" ELSE driver
  /\ server' = "exited"
  /\ UNCHANGED << Handlers, permit, contexts, browser, sanIn, sanOut >>

NextLife ==
  \/ StartDriverOk
  \/ StartDriverRaises
  \/ LaunchOk
  \/ LaunchRaises
  \/ Signal
  \/ BeginShutdown
  \/ BrowserCloseOk
  \/ \E c \in BOOLEAN : BrowserCloseRaises(c)
  \/ DriverStopOk
  \/ \E c \in BOOLEAN : DriverStopRaises(c)
  \/ Serve(Requests, LifeCaptureBodies, LifeMapBodies)

SpecLife == InitLife /\ [][NextLife]_vars

\* ------------------------------------------- _sanitize_filename on its own
\* The characters names are made of: the nine forbidden ones, three letters
\* and the blank.
NameChars == ForbiddenChars \cup { "a", "b", "c", " " }

ExampleName == << "a", "/", "b", ":", "c" >>

\* the names the function is applied to
Names == UNION { [1..n -> NameChars] : n \in 0..MaxNameLen } \cup { ExampleName }

InitSanitize ==
  /\ InitRequests(Requests)
  /\ Serving
  /\ sanIn \in Names
  /\ sanOut = <<>>

\* line 57: safe_code = _sanitize_filename(str(code))
Sanitize ==
  /\ Len(sanOut) = 0
  /\ sanOut' = << _sanitize_filename(sanIn) >>
  /\ UNCHANGED << requestVars, lifeVars, sanIn >>

\* the function applied to what it returned
SanitizeAgain ==
  /\ Len(sanOut) = 1
  /\ sanOut' = Append(sanOut, _sanitize_filename(sanOut[1]))
  /\ UNCHANGED << requestVars, lifeVars, sanIn >>

NextSanitize == Sanitize \/ SanitizeAgain

SpecSanitize == InitSanitize /\ [][NextSanitize]_vars

\* ==================================================================== claims
InPipeline(r) == pc[r] \in PipelinePcs

\* the handler of r is between acquiring queue_lock and its response
InCritical(r) == pc[r] \in PipelinePcs \cup { "start" }

\* C1: at most one invocation is between creating and closing its Browsing
\* Context, and whenever an invocation is at one of its steps, the context
\* of every other invocation has been destroyed.
C1_OneInvocationAndNoOtherContext ==
  /\ Cardinality({ r \in Requests : InPipeline(r) }) <= 1
  /\ \A r \in Requests :
       InPipeline(r) => \A c \in contexts : c = <<r, idx[r]>>

\* C2: from before the first item of a /capture_map request until after its
\* last item the request holds the permit, and no other request is at a step
\* of the pipeline or about to start one.
C2_BatchIsOneCriticalSection ==
  \A r \in Requests :
    (endpoint[r] = "capture_map" /\ InCritical(r)) =>
      /\ r \in holders
      /\ \A q \in Requests \ {r} : ~InCritical(q)

\* a batch is at its second item while another valid request waits
C2_Witness ==
  \E r, q \in Requests :
    /\ endpoint[r] = "capture_map"
    /\ idx[r] = 2
    /\ InPipeline(r)
    /\ Len(hist[r]) = 1
    /\ pc[q] = "waiting"

\* C3: every Browsing Context alive belongs to the invocation that is
\* running: none outlives the invocation that created it.
C3_NoContextOutlivesItsInvocation ==
  \A c \in contexts :
    /\ InPipeline(c[1])
    /\ idx[c[1]] = c[2]

\* C4: every invocation that has ended returned Success or Failure; none
\* ended by an exception, and no handler was answered by the framework's 500.
C4_EveryInvocationReturnsAnOutcome ==
  \A r \in Requests :
    /\ \A i \in 1..Len(hist[r]) : hist[r][i].outcome \in { "Success", "Failure" }
    /\ resp[r].status # 500

\* C5: an invocation runs only while its request holds the permit; a handler
\* that has ended holds nothing, whichever way it ended; the counter is 0
\* exactly while some request holds the permit.
C5_PermitHeldExactlyDuringCritical ==
  /\ \A r \in Requests : InPipeline(r) => r \in holders
  /\ \A r \in Requests : pc[r] \in { "done", "idle", "waiting" } => r \notin holders
  /\ permit + Cardinality(holders) = 1
  /\ \A r \in Requests :
       (pc[r] = "done" /\ \A q \in Requests : ~InCritical(q)) => permit = 1

\* a handler ended because its pipeline raised, another ended after a failed
\* capture, and the permit is free again
C5_Witness ==
  \E r, q \in Requests :
    /\ pc[r] = "done" /\ resp[r].status = 500 /\ r \in everHeld
    /\ pc[q] = "done" /\ resp[q].status = 200 /\ q \in everHeld
    /\ Len(hist[q]) >= 1 /\ hist[q][1].outcome = "Failure"
    /\ permit = 1

\* C6: a /capture_map handler that has ended on a valid body invoked the
\* pipeline once per entry, in iteration order, and returned the batch
\* response.
C6_EveryEntryAttempted ==
  \A r \in Requests :
    (/\ endpoint[r] = "capture_map" /\ pc[r] = "done"
     /\ body[r].kind = "dict" /\ body[r].item # <<>>) =>
      /\ Len(hist[r]) = Len(body[r].item)
      /\ \A i \in 1..Len(hist[r]) : hist[r][i].code = body[r].item[i][1]
      /\ resp[r].status = 200

\* the codes of the entries whose invocation returned Success, in order
RECURSIVE SuccessCodes(_, _)
SuccessCodes(items, h) ==
  IF items = <<>> \/ h = <<>> THEN <<>>
  ELSE (IF Head(h).outcome = "Success" THEN << Head(items)[1] >> ELSE <<>>)
         \o SuccessCodes(Tail(items), Tail(h))

\* C7: the done list of a /capture_map response holds exactly the codes of
\* the batch whose capture returned Success, each once, in iteration order.
C7_DoneIsExactlyTheSuccesses ==
  \A r \in Requests :
    (endpoint[r] = "capture_map" /\ pc[r] = "done" /\ resp[r].status = 200) =>
      /\ Len(hist[r]) = Len(body[r].item)
      /\ resp[r].content.done = SuccessCodes(body[r].item, hist[r])
      /\ \A i, j \in 1..Len(resp[r].content.done) :
           i # j => resp[r].content.done[i] # resp[r].content.done[j]

\* a two-entry batch whose first capture failed and whose second succeeded
C7_Witness ==
  \E r \in Requests :
    /\ endpoint[r] = "capture_map" /\ pc[r] = "done" /\ resp[r].status = 200
    /\ Len(hist[r]) = 2
    /\ hist[r][1].outcome = "Failure"
    /\ hist[r][2].outcome = "Success"
    /\ resp[r].content.done = << body[r].item[2][1] >>

\* What a handler whose body was refused shows: a 400 with an error, the
\* handler ended, the permit never acquired, no invocation, no step, no
\* Browsing Context of its own, no file written by it.
Refused(r) ==
  /\ pc[r] = "done"
  /\ resp[r].status = 400
  /\ DOMAIN resp[r].content = { "error" }
  /\ r \notin everHeld
  /\ hist[r] = <<>> /\ steps[r] = <<>> /\ wrote[r] = {}
  /\ \A c \in contexts : c[1] # r
  /\ \A f \in files : f[2][1] # r

\* C8 as stated: a /capture body that is no list or a list whose arity is
\* not two, and a /capture_map body that is no mapping or is empty, is
\* refused.
C8_Original_ArityNotTwoRefused ==
  \A r \in Requests :
    /\ (endpoint[r] = "capture"
          /\ (body[r].kind # "list" \/ Len(body[r].item) # 2)) => Refused(r)
    /\ (endpoint[r] = "capture_map"
          /\ (body[r].kind # "dict" \/ Len(body[r].item) = 0)) => Refused(r)

\* C8, amended: a /capture body that is no list or a list of fewer than two
\* elements, and a /capture_map body that is no mapping or is empty, is
\* refused with a 400, the permit not acquired, nothing invoked, created or
\* written, whether or not the permit is held by another request.
C8_MalformedBodyRefused ==
  \A r \in Requests :
    /\ (endpoint[r] = "capture"
          /\ (body[r].kind # "list" \/ Len(body[r].item) \in { 0, 1 })) => Refused(r)
    /\ (endpoint[r] = "capture_map"
          /\ (body[r].kind # "dict" \/ Len(body[r].item) = 0)) => Refused(r)

\* an empty mapping was refused while another request held the permit and
\* is still in the middle of its capture
C8_Witness ==
  \E r, q \in Requests :
    /\ endpoint[r] = "capture_map" /\ body[r].kind = "dict" /\ body[r].item = <<>>
    /\ resp[r].status = 400 /\ rejectedWhileHeld[r]
    /\ InPipeline(q) /\ q \in holders

\* C9: an invocation that did not end in Success wrote no file, and every
\* file of the output directory was written by an invocation that is still
\* running or ended in Success.
C9_OnlySuccessWrites ==
  /\ \A r \in Requests : \A i \in 1..Len(hist[r]) :
       hist[r][i].outcome # "Success" => hist[r][i].wrote = {}
  /\ \A f \in files :
       LET r == f[2][1]
           i == f[2][2]
       IN \/ (InPipeline(r) /\ idx[r] = i)
          \/ (i <= Len(hist[r]) /\ hist[r][i].outcome = "Success")

\* C10: a /capture request with a two-element list whose pipeline awaits all
\* succeeded wrote exactly one file, <sanitized identifier>.png; the file is
\* in the output directory; the response is a 200 with code, target and the
\* resolved path of that file, and no error.
C10_SuccessWritesTheFileAndReportsIt ==
  \A r \in Requests :
    (/\ endpoint[r] = "capture" /\ pc[r] = "done"
     /\ body[r].kind = "list" /\ Len(body[r].item) = 2
     /\ Len(hist[r]) = 1 /\ hist[r][1].allOk) =>
      LET name == _sanitize_filename(body[r].item[1]) \o <<".png">>
      IN /\ hist[r][1].wrote = { name }
         /\ \E f \in files : f[1] = name
         /\ resp[r].status = 200
         /\ DOMAIN resp[r].content = { "code", "target", "path" }
         /\ resp[r].content.code = body[r].item[1]
         /\ resp[r].content.target = body[r].item[2]
         /\ resp[r].content.path = <<OUTPUT_DIR>> \o name

\* ["a/", "x"] was captured with every step succeeding
C10_Witness ==
  \E r \in Requests :
    /\ endpoint[r] = "capture" /\ pc[r] = "done"
    /\ body[r].item = <<IdASlash, TargetX>>
    /\ Len(hist[r]) = 1 /\ hist[r][1].allOk
    /\ "path" \in DOMAIN resp[r].content

\* C11: when two /capture requests with the same identifier have both
\* succeeded, both wrote the one path made of the identifier, both responses
\* report that path, and the output directory holds one file of that name.
C11_SameIdentifierSamePathOneFile ==
  \A r, q \in Requests :
    ( /\ r # q
      /\ endpoint[r] = "capture" /\ endpoint[q] = "capture"
      /\ pc[r] = "done" /\ pc[q] = "done"
      /\ "path" \in DOMAIN resp[r].content /\ "path" \in DOMAIN resp[q].content
      /\ body[r].item[1] = body[q].item[1] ) =>
        LET name == FileName(body[r].item[1])
        IN /\ resp[r].content.path = resp[q].content.path
           /\ hist[r][1].wrote = { name }
           /\ hist[q][1].wrote = { name }
           /\ Cardinality({ f \in files : f[1] = name }) = 1

\* two /capture requests with the same identifier have both succeeded
C11_Witness ==
  \E r, q \in Requests :
    /\ r < q
    /\ endpoint[r] = "capture" /\ endpoint[q] = "capture"
    /\ pc[r] = "done" /\ pc[q] = "done"
    /\ "path" \in DOMAIN resp[r].content /\ "path" \in DOMAIN resp[q].content
    /\ body[r].item[1] = body[q].item[1]
    /\ <<FileName(body[r].item[1]), <<q, 1>> >> \in files

\* both /capture requests carry the same valid body and neither succeeded
BothFailedSame(r, q) ==
  /\ r # q
  /\ endpoint[r] = "capture" /\ endpoint[q] = "capture"
  /\ pc[r] = "done" /\ pc[q] = "done"
  /\ body[r] = body[q]
  /\ CaptureBodyValid(body[r])
  /\ Len(hist[r]) = 1 /\ Len(hist[q]) = 1
  /\ hist[r][1].outcome # "Success" /\ hist[q][1].outcome # "Success"

\* C16: two failed captures of the same /capture request get identical
\* responses, whatever step failed and whatever the exception said.
C16_FailedResponsesAreIdentical ==
  \A r, q \in Requests : BothFailedSame(r, q) => resp[r] = resp[q]

\* the holders of the permit are the handlers inside their critical section
C18_State ==
  /\ permit \in { 0, 1 }
  /\ (permit = 0) <=> (Cardinality({ r \in Requests : InCritical(r) }) = 1)
  /\ (permit = 1) <=> ({ r \in Requests : InCritical(r) } = {})
  /\ holders = { r \in Requests : InCritical(r) }
  /\ \A i \in 1..Len(waiters) : waiters[i] \notin holders /\ pc[waiters[i]] = "waiting"
  /\ \A r \in holders : pc[r] # "waiting"

\* a step that frees the permit or takes a handler out of the holders is the
\* end of that holder's handler; a handler that becomes a holder was none
C18_Step ==
  /\ (permit' > permit) =>
        \E r \in holders : InCritical(r) /\ pc'[r] = "done" /\ holders' = {}
  /\ \A r \in holders \ holders' : InCritical(r) /\ pc'[r] = "done"
  /\ \A r \in holders' \ holders : pc[r] \in { "idle", "waiting" }
  /\ (permit' < permit) => holders = {}

\* C18: the permit's count is 0 or 1; it is 0 exactly when one handler is
\* inside its critical section; only the holder releases it; no holder
\* attempts to acquire it again.
C18_PermitIdleOrHeld == [](C18_State) /\ [][C18_Step]_vars

\* the permit went from one handler, now done, to another that waited for it
C18_Witness ==
  \E r, q \in Requests :
    /\ r # q
    /\ pc[r] = "done" /\ r \in everHeld
    /\ rejectedWhileHeld[q] = FALSE
    /\ q \in holders /\ InPipeline(q)
    /\ permit = 0

StepOrder == << "new_context", "new_page", "goto", "fill", "submit", "click", "shot" >>

\* C19: the steps an invocation has taken are the first steps of the fixed
\* order, each once; only the last of them can have failed, and after a
\* failed step the invocation is at the destruction of its context, with no
\* screenshot written.
C19_StepsInOrderAndNothingAfterFailure ==
  \A r \in Requests :
    LET st == steps[r]
    IN /\ Len(st) <= Len(StepOrder)
       /\ \A i \in 1..Len(st) : st[i][1] = StepOrder[i]
       /\ \A i \in 1..(Len(st) - 1) : st[i][2]
       /\ pc[r] \in { "goto", "fill", "submit", "click", "shot" } =>
             /\ AllOk(st)
             /\ pc[r] = StepOrder[Len(st) + 1]
       /\ (st # <<>> /\ ~st[Len(st)][2]) => (pc[r] = "close" /\ wrote[r] = {})
       /\ wrote[r] # {} => (Len(st) = Len(StepOrder) /\ AllOk(st))

\* submit failed after navigate and fill: the invocation is at context.close()
C19_Witness ==
  \E r \in Requests :
    /\ pc[r] = "close"
    /\ Len(steps[r]) = 5
    /\ steps[r][5] = << "submit", FALSE >>
    /\ steps[r][3] = << "goto", TRUE >>

\* the names of the files the invocations of request r wrote
WrittenBy(r) == UNION { hist[r][i].wrote : i \in 1..Len(hist[r]) }

\* C20: when a /capture_map response is returned, the identifiers in done
\* have pairwise different output files and the batch wrote as many files as
\* done is long.
C20_EveryDoneIdentifierHasItsOwnFile ==
  \A r \in Requests :
    (endpoint[r] = "capture_map" /\ pc[r] = "done" /\ resp[r] = MapResponse(done[r])) =>
      /\ \A i, j \in 1..Len(done[r]) :
           i # j => FileName(done[r][i]) # FileName(done[r][j])
      /\ Cardinality(WrittenBy(r)) = Len(done[r])

\* the name with its forbidden characters removed, the others in their order
RECURSIVE Removed(_)
Removed(n) ==
  IF n = <<>> THEN <<>>
  ELSE IF Head(n) \in ForbiddenChars THEN Removed(Tail(n))
  ELSE << Head(n) >> \o Removed(Tail(n))

\* the string from its first to its last character that is no whitespace
Trimmed(t) ==
  LET I == { i \in 1..Len(t) : t[i] \notin Whitespace }
  IN IF I = {} THEN <<>>
     ELSE SubSeq(t, CHOOSE i \in I : \A j \in I : i <= j,
                    CHOOSE i \in I : \A j \in I : i >= j)

\* C17 as stated: the stem is the identifier with exactly the forbidden
\* characters removed and every other character kept in order, and
\* sanitizing a stem again changes nothing.
C17_Original_OnlyForbiddenRemoved ==
  /\ Len(sanOut) >= 1 => sanOut[1] = Removed(sanIn)
  /\ Len(sanOut) = 2 => sanOut[2] = sanOut[1]

\* C17: the stem is the identifier with the forbidden characters removed and
\* then the whitespace at both ends stripped, every other character kept in
\* order (a/b:c gives abc); sanitizing a stem again changes nothing.
C17_ForbiddenRemovedThenStripped ==
  /\ Len(sanOut) >= 1 =>
       /\ sanOut[1] = Trimmed(Removed(sanIn))
       /\ sanIn = ExampleName => sanOut[1] = << "a", "b", "c" >>
  /\ Len(sanOut) = 2 => sanOut[2] = sanOut[1]

\* " a/" was sanitized, and its stem "a" sanitized again
C17_Witness ==
  /\ sanIn = << " ", "a", "/" >>
  /\ sanOut = << << "a" >>, << "a" >> >>

\* C13: when shutdown is about to close the browser or has closed it, no
\* Browsing Context is alive and no request holds the permit.
C13_NoContextAliveAtBrowserClose ==
  server \in { "closing", "stopping", "exited" } =>
    /\ contexts = {}
    /\ holders = {}
    /\ \A r \in Requests : ~InCritical(r)

\* a capture begins: _capture_one_raw runs from its first line to its call
\* of browser.new_context
CaptureBegins(r) == pc[r] = "start" /\ pc'[r] = "new_context"

C14_Step == server # "serving" => \A r \in Requests : ~CaptureBegins(r)

\* C14: after the termination signal no capture begins, and a browser that
\* was launched has been closed when the process has exited.
C14_NoCaptureAfterSignal ==
  /\ [][C14_Step]_vars
  /\ []((server = "exited" /\ browser # "none") => browser = "closed")

\* C15: when the process has exited, the driver and the browser it started
\* have been released.
C15_StartupResourcesReleased ==
  server = "exited" => (driver # "running" /\ browser # "running")

\* the waiters stand in the order of their arrival
C12_InArrivalOrder ==
  \A i, j \in 1..Len(waiters) : i < j => waiters[i] < waiters[j]

\* a suspended handler stays suspended or, being the first of the waiters,
\* is given the permit and resumes at its capture
C12_Step ==
  \A r \in DOMAIN pc :
    (pc[r] = "waiting" /\ pc'[r] # "waiting") =>
      /\ r = Head(waiters)
      /\ pc'[r] = "start"
      /\ r \in holders'
      /\ resp'[r] = NoResp

\* C12: a request that finds the permit held is suspended, neither timed
\* out nor refused, until it is released; the waiters get the permit in the
\* order they arrived; and, every capture terminating, each waiter is given
\* the permit and its invocation of the pipeline runs.
C12_WaitersServedInOrder ==
  /\ [](C12_InArrivalOrder)
  /\ [][C12_Step]_vars
  /\ \A r \in QueueRequests :
       (pc[r] = "waiting") ~> (pc[r] \in PipelinePcs \cup { "done" })

\* request 3 was suspended; 1 and 2 have held the permit and ended, 3 has
\* been given it and is resumed at its capture
C12_Witness ==
  /\ 3 \in waited
  /\ pc[1] = "done" /\ 1 \in everHeld
  /\ pc[2] = "done" /\ 2 \in everHeld
  /\ 3 \in holders /\ pc[3] = "start"

====
